---- MODULE Spec2Model ----
(***************************************************************************)
(* convert_otel_simple.py: one pass over a JSONL event log that extracts   *)
(* tool-call records (lines 7-26), prints a console summary (28-30),       *)
(* renders a simple YML document (33-42) and writes it next to the source  *)
(* (45-49).                                                                *)
(***************************************************************************)
EXTENDS Integers, Sequences, FiniteSets, TLC

(***************************************************************************)
(* Bounds of the model.                                                    *)
(***************************************************************************)
\* the source file holds at most MaxLines lines
MaxLines == 4
\* a path given on the command line is made of at most MaxPieces pieces
MaxPieces == 3

(***************************************************************************)
(* Python values.  Every value carries its type in the field py, and the   *)
(* payload field is named after the type.  A dict is its (key, value)      *)
(* items in insertion order.                                               *)
(***************************************************************************)
PyNone == [py |-> "None"]

PyStr(s) == [py |-> "str", s |-> s]

PyInt(n) == [py |-> "int", n |-> n]

PyBool(b) == [py |-> "bool", b |-> b]

PyDict(items) == [py |-> "dict", items |-> items]

PyList(elems) == [py |-> "list", elems |-> elems]

IsDict(v) == v.py = "dict"

\* bool(v), as `if tool_input:` evaluates it
Truthy(v) ==
    CASE v.py = "None" -> FALSE
      [] v.py = "str"  -> v.s # ""
      [] v.py = "int"  -> v.n # 0
      [] v.py = "bool" -> v.b
      [] v.py = "dict" -> v.items # <<>>
      [] v.py = "list" -> v.elems # <<>>

HasKey(d, k) == \E i \in 1..Len(d.items) : d.items[i][1] = k

\* d.get(k, dflt)
Get(d, k, dflt) ==
    IF HasKey(d, k)
    THEN d.items[CHOOSE i \in 1..Len(d.items) : d.items[i][1] = k][2]
    ELSE dflt

\* d[k] = v: an existing key keeps its position, a new key goes last
SetItem(d, k, v) ==
    IF HasKey(d, k)
    THEN PyDict([i \in 1..Len(d.items) |->
                   IF d.items[i][1] = k THEN <<k, v>> ELSE d.items[i]])
    ELSE PyDict(Append(d.items, <<k, v>>))

\* repr(v)
RECURSIVE Repr(_)
Repr(v) ==
    CASE v.py = "None" -> "None"
      [] v.py = "str"  -> "'" \o v.s \o "'"
      [] v.py = "int"  -> ToString(v.n)
      [] v.py = "bool" -> IF v.b THEN "True" ELSE "False"
      [] v.py = "list" -> "[]"
      [] v.py = "dict" ->
           LET item(i) == "'" \o v.items[i][1] \o "': " \o Repr(v.items[i][2])
               upto[i \in 0..Len(v.items)] ==
                   IF i = 0 THEN ""
                   ELSE upto[i - 1] \o (IF i > 1 THEN ", " ELSE "") \o item(i)
           IN  "{" \o upto[Len(v.items)] \o "}"

\* str(v), what an f-string replacement field {v} renders
Format(v) == IF v.py = "str" THEN v.s ELSE Repr(v)

(***************************************************************************)
(* Lines of the source file.  A line that is JSON text is represented by   *)
(* the value it decodes to; a line that is not JSON carries its raw text.  *)
(***************************************************************************)
JsonLine(v) == [json |-> v]

BadLine(t) == [raw |-> t]

Parses(line) == "json" \in DOMAIN line

\* json.loads(line), for a line that parses
Loads(line) == line.json

ArgsCats == PyDict(<< <<"q", PyStr("cats")>> >>)

EmptyDict == PyDict(<< >>)

ToolInputEvents ==
    { PyDict(<< <<"event_type", PyStr("ToolInput")>>,
                <<"timestamp", PyStr("t1")>>,
                <<"tool_input", PyDict(<< <<"tool_name", PyStr("search")>>,
                                          <<"tool_args", ArgsCats>> >>)>>,
                <<"timing", PyDict(<< <<"step_timeuse_ms", PyInt(120)>> >>)>> >>),
      PyDict(<< <<"event_type", PyStr("ToolInput")>>,
                <<"timestamp", PyStr("t2")>>,
                <<"tool_input", PyDict(<< <<"tool_name", PyStr("fetch")>>,
                                          <<"tool_args", EmptyDict>> >>)>> >>),
      PyDict(<< <<"event_type", PyStr("ToolInput")>>,
                <<"tool_input", PyDict(<< <<"call_id", PyInt(7)>> >>)>>,
                <<"timing", EmptyDict>> >>),
      PyDict(<< <<"event_type", PyStr("ToolInput")>>,
                <<"timestamp", PyStr("t2")>>,
                <<"tool_input", EmptyDict>> >>),
      PyDict(<< <<"event_type", PyStr("ToolInput")>>,
                <<"timestamp", PyStr("t2")>> >>),
      PyDict(<< <<"event_type", PyStr("ToolInput")>>,
                <<"tool_input", PyDict(<< <<"tool_name", PyStr("fetch")>> >>)>>,
                <<"timing", PyNone>> >>) }

ToolOutputEvents ==
    { PyDict(<< <<"event_type", PyStr("ToolOutput")>>,
                <<"tool_output", PyDict(<< <<"results", PyStr("3 hits")>>,
                                           <<"success", PyBool(TRUE)>> >>)>> >>),
      PyDict(<< <<"event_type", PyStr("ToolOutput")>> >>),
      PyDict(<< <<"event_type", PyStr("ToolOutput")>>,
                <<"tool_output", PyNone>> >>) }

OtherEvents ==
    { PyDict(<< <<"event_type", PyStr("LlmRequest")>>,
                <<"timestamp", PyStr("t1")>> >>),
      PyDict(<< <<"timestamp", PyStr("t1")>> >>),
      PyList(<< >>) }

\* the lines a source file is made of
Lines ==
    {JsonLine(v) : v \in ToolInputEvents \cup ToolOutputEvents \cup OtherEvents}
        \cup {BadLine("{not json")}

(***************************************************************************)
(* Paths are sequences of characters.                                      *)
(***************************************************************************)
JsonlExt == <<".", "j", "s", "o", "n", "l">>

YmlExt == <<".", "y", "m", "l">>

DefaultPath ==
    << "l", "o", "g", "s", "/", "s", "e", "s", "s", "i", "o", "n", "s", "/",
       "e", "n", "h", "a", "n", "c", "e", "d", "_", "o", "t", "e", "l", "_",
       "3", "0", "6", "1", "1", "4", "a", "3", "-", "3", "d", "3", "6", "-",
       "4", "3", "b", "b", "-", "a", "c", "4", "0", "-", "3", "3", "5", "f",
       "e", "f", "6", "3", "0", "7", "a", "c", ".", "j", "s", "o", "n", "l" >>

\* sys.argv[1] if len(sys.argv) > 1 else the default path
FilePath(argv) == IF Len(argv) > 1 THEN argv[2] ELSE DefaultPath

\* the text of a character sequence
RECURSIVE Text(_)
Text(cs) == IF cs = <<>> THEN "" ELSE Head(cs) \o Text(Tail(cs))

VARIABLES
    file_path,     \* line 5
    pc,            \* the statement the run is at
    processed,     \* the lines `for line in f` has delivered so far
    tool_calls,    \* line 7
    console,       \* the lines printed to stdout
    yml_content,   \* lines 33-42: the document, as a sequence of lines
    yml_path,      \* line 45
    src_open,      \* the handle of line 8 is open
    dest_open,     \* the handle of line 46 is open
    dest_file,     \* what the run has done to the file at yml_path
    err            \* the uncaught exception that ended the run, "" if none

vars == <<file_path, pc, processed, tool_calls, console, yml_content,
          yml_path, src_open, dest_open, dest_file, err>>

(***************************************************************************)
(* Lines 13-26: one event of the extraction loop.                          *)
(***************************************************************************)
EventType(data) == Get(data, "event_type", PyNone)

\* NewCall as if lines 19-20 gave .get no default
NewCallNoDefaults(data, tool_input) ==
    PyDict(<< <<"tool_name", Get(tool_input, "tool_name", PyNone)>>,
              <<"start_time", Get(data, "timestamp", PyNone)>>,
              <<"input", Get(tool_input, "tool_args", PyNone)>>,
              <<"duration_ms",
                Get(Get(data, "timing", EmptyDict), "step_timeuse_ms", PyNone)>> >>)

\* lines 16-21
NewCall(data, tool_input) ==
    PyDict(<< <<"tool_name", Get(tool_input, "tool_name", PyNone)>>,
              <<"start_time", Get(data, "timestamp", PyNone)>>,
              <<"input", Get(tool_input, "tool_args", EmptyDict)>>,
              <<"duration_ms",
                Get(Get(data, "timing", EmptyDict), "step_timeuse_ms", PyInt(0))>> >>)

\* AttachOutput as if line 25-26 indexed tool_calls[0]
AttachOutputFirst(calls, tool_output) ==
    LET withOutput == SetItem(calls[1], "output",
                              Get(tool_output, "results", PyStr("")))
    IN  [calls EXCEPT ![1] =
            SetItem(withOutput, "success",
                    Get(tool_output, "success", PyBool(FALSE)))]

\* AttachOutput as if lines 25-26 ran for every record of tool_calls
AttachOutputAll(calls, tool_output) ==
    [i \in 1..Len(calls) |->
        SetItem(SetItem(calls[i], "output",
                        Get(tool_output, "results", PyStr(""))),
                "success", Get(tool_output, "success", PyBool(FALSE)))]

\* AttachOutput as if line 26 were missing
AttachOutputOnly(calls, tool_output) ==
    [calls EXCEPT ![Len(calls)] =
        SetItem(calls[Len(calls)], "output",
                Get(tool_output, "results", PyStr("")))]

\* lines 25-26
AttachOutput(calls, tool_output) ==
    LET last == Len(calls)
        withOutput == SetItem(calls[last], "output",
                              Get(tool_output, "results", PyStr("")))
    IN  [calls EXCEPT ![last] =
            SetItem(withOutput, "success",
                    Get(tool_output, "success", PyBool(FALSE)))]

\* Raises as if line 24 were missing: tool_calls[-1] of an empty list raises
RaisesWithoutEmptyGuard(calls, data) ==
    \/ ~IsDict(data)
    \/ /\ IsDict(data)
       /\ EventType(data) = PyStr("ToolInput")
       /\ LET tool_input == Get(data, "tool_input", EmptyDict)
          IN  /\ Truthy(tool_input)
              /\ \/ ~IsDict(tool_input)
                 \/ ~IsDict(Get(data, "timing", EmptyDict))
    \/ /\ IsDict(data)
       /\ EventType(data) = PyStr("ToolOutput")
       /\ \/ calls = <<>>
          \/ ~IsDict(Get(data, "tool_output", EmptyDict))

\* the event makes lines 13-26 raise AttributeError (.get on a non-dict)
Raises(calls, data) ==
    \/ ~IsDict(data)
    \/ /\ IsDict(data)
       /\ EventType(data) = PyStr("ToolInput")
       /\ LET tool_input == Get(data, "tool_input", EmptyDict)
          IN  /\ Truthy(tool_input)
              /\ \/ ~IsDict(tool_input)
                 \/ ~IsDict(Get(data, "timing", EmptyDict))
    \/ /\ IsDict(data)
       /\ EventType(data) = PyStr("ToolOutput")
       /\ calls # <<>>
       /\ ~IsDict(Get(data, "tool_output", EmptyDict))

\* Extract as if line 15 were missing: an empty tool_input makes a record too
ExtractNoInputGuard(calls, data) ==
    IF EventType(data) = PyStr("ToolInput")
    THEN Append(calls, NewCall(data, Get(data, "tool_input", EmptyDict)))
    ELSE IF EventType(data) = PyStr("ToolOutput") /\ calls # <<>>
    THEN AttachOutput(calls, Get(data, "tool_output", EmptyDict))
    ELSE calls

\* Extract as if line 16 were tool_calls.insert(0, ...)
ExtractInsertFront(calls, data) ==
    IF EventType(data) = PyStr("ToolInput")
    THEN LET tool_input == Get(data, "tool_input", EmptyDict)
         IN  IF Truthy(tool_input)
             THEN <<NewCall(data, tool_input)>> \o calls
             ELSE calls
    ELSE IF EventType(data) = PyStr("ToolOutput") /\ calls # <<>>
    THEN AttachOutput(calls, Get(data, "tool_output", EmptyDict))
    ELSE calls

\* lines 13-26 for an event that raises nothing: the new tool_calls
Extract(calls, data) ==
    IF EventType(data) = PyStr("ToolInput")
    THEN LET tool_input == Get(data, "tool_input", EmptyDict)
         IN  IF Truthy(tool_input)
             THEN Append(calls, NewCall(data, tool_input))
             ELSE calls
    ELSE IF EventType(data) = PyStr("ToolOutput")
    THEN LET tool_output == Get(data, "tool_output", EmptyDict)
         IN  IF calls # <<>>
             THEN AttachOutput(calls, tool_output)
             ELSE calls
    ELSE calls

\* lines 7-26 over a whole stream: the records, and the exception if one ends it
RECURSIVE ExtractAll(_)
ExtractAll(lines) ==
    IF lines = <<>> THEN [calls |-> <<>>, err |-> ""]
    ELSE LET prev == ExtractAll(SubSeq(lines, 1, Len(lines) - 1))
             line == lines[Len(lines)]
         IN  IF prev.err # "" THEN prev
             ELSE IF ~Parses(line)
             THEN [calls |-> prev.calls, err |-> "JSONDecodeError"]
             ELSE IF Raises(prev.calls, Loads(line))
             THEN [calls |-> prev.calls, err |-> "AttributeError"]
             ELSE [calls |-> Extract(prev.calls, Loads(line)), err |-> ""]

(***************************************************************************)
(* The run.                                                                *)
(***************************************************************************)
\* the file at yml_path: not touched by the run, ...
Untouched == [state |-> "untouched"]

\* ... created or truncated by open(yml_path, 'w'), ...
Truncated == [state |-> "truncated"]

\* ... left with some part of the document by a write that failed, ...
Partial == [state |-> "partial"]

\* ... or holding the document
Written(content) == [state |-> "written", lines |-> content]

\* sys.argv of a run without arguments
NoArgs == <<"convert_otel_simple.py">>

\* the pieces the paths given on the command line are made of
Pieces == { <<"a">>, <<"/">>, <<".">>, <<"j", "s", "o", "n", "l">>,
            JsonlExt, YmlExt }

\* the concatenations of n pieces
RECURSIVE PathsOf(_)
PathsOf(n) ==
    IF n = 0 THEN {<<>>}
    ELSE {p \o q : p \in PathsOf(n - 1), q \in Pieces}

\* sys.argv of the runs with one argument
OneArg ==
    {<<"convert_otel_simple.py", p>> :
        p \in UNION {PathsOf(n) : n \in 1..MaxPieces}}

\* the state after lines 5-7
Start(argv) ==
    /\ file_path = FilePath(argv)
    /\ pc = "open"
    /\ processed = <<>>
    /\ tool_calls = <<>>
    /\ console = <<>>
    /\ yml_content = <<>>
    /\ yml_path = <<>>
    /\ src_open = FALSE
    /\ dest_open = FALSE
    /\ dest_file = Untouched
    /\ err = ""

\* a run without arguments, over any source file
Init == Start(NoArgs)

\* a run with one argument
InitArg == \E argv \in OneArg : Start(argv)

\* line 8: open(file_path, 'r')
OpenSource ==
    /\ pc = "open"
    /\ src_open' = TRUE
    /\ pc' = "read"
    /\ UNCHANGED <<file_path, processed, tool_calls, console, yml_content,
                   yml_path, dest_open, dest_file, err>>

\* line 8: the source cannot be opened
OpenSourceFail ==
    /\ pc = "open"
    /\ err' = "FileNotFoundError"
    /\ pc' = "failed"
    /\ UNCHANGED <<file_path, processed, tool_calls, console, yml_content,
                   yml_path, src_open, dest_open, dest_file>>

\* lines 9-26: one line that parses and whose event raises nothing
ExtractLine(line) ==
    /\ pc = "read"
    /\ Len(processed) < MaxLines
    /\ Parses(line)
    /\ ~Raises(tool_calls, Loads(line))
    /\ processed' = Append(processed, line)
    /\ tool_calls' = Extract(tool_calls, Loads(line))
    /\ UNCHANGED <<file_path, pc, console, yml_content, yml_path, src_open,
                   dest_open, dest_file, err>>

\* ParseFail as if line 10 were wrapped in try/except: continue
ParseFailSkipsLine(line) ==
    /\ pc = "read"
    /\ Len(processed) < MaxLines
    /\ ~Parses(line)
    /\ processed' = Append(processed, line)
    /\ UNCHANGED <<file_path, pc, tool_calls, console, yml_content, yml_path,
                   src_open, dest_open, dest_file, err>>

\* line 10: json.loads raises; the with block closes the source
ParseFail(line) ==
    /\ pc = "read"
    /\ Len(processed) < MaxLines
    /\ ~Parses(line)
    /\ processed' = Append(processed, line)
    /\ err' = "JSONDecodeError"
    /\ pc' = "failed"
    /\ src_open' = FALSE
    /\ UNCHANGED <<file_path, tool_calls, console, yml_content, yml_path,
                   dest_open, dest_file>>

\* AttributeFail as if line 8 were f = open(...) without a with block
AttributeFailLeavesOpen(line) ==
    /\ pc = "read"
    /\ Len(processed) < MaxLines
    /\ Parses(line)
    /\ Raises(tool_calls, Loads(line))
    /\ processed' = Append(processed, line)
    /\ err' = "AttributeError"
    /\ pc' = "failed"
    /\ UNCHANGED <<file_path, tool_calls, console, yml_content, yml_path,
                   src_open, dest_open, dest_file>>

\* lines 13-26: .get on a value that is no dict; the with block closes the source
AttributeFail(line) ==
    /\ pc = "read"
    /\ Len(processed) < MaxLines
    /\ Parses(line)
    /\ Raises(tool_calls, Loads(line))
    /\ processed' = Append(processed, line)
    /\ err' = "AttributeError"
    /\ pc' = "failed"
    /\ src_open' = FALSE
    /\ UNCHANGED <<file_path, tool_calls, console, yml_content, yml_path,
                   dest_open, dest_file>>

\* line 9: the file is exhausted; the with block closes the source
EndOfFile ==
    /\ pc = "read"
    /\ src_open' = FALSE
    /\ pc' = "summary"
    /\ UNCHANGED <<file_path, processed, tool_calls, console, yml_content,
                   yml_path, dest_open, dest_file, err>>

(***************************************************************************)
(* Lines 28-42: the console summary and the document.                      *)
(***************************************************************************)
\* line 30, for the call at 0-based index i
ConsoleLine(i, call) ==
    "  " \o ToString(i + 1) \o ". "
         \o Format(Get(call, "tool_name", PyStr("Unknown")))
         \o " - " \o Format(Get(call, "input", EmptyDict))

\* a line of the document: lead, then key, then ":", then text
YmlLine(lead, key, text) == [lead |-> lead, key |-> key, text |-> text]

\* the text of a line of the document
LineText(l) == l.lead \o l.key \o ":" \o l.text

\* lines 33-35
YmlHeader ==
    << YmlLine("", "session_id", " 306114a3-3d36-43bb-ac40-335fef6307ac"),
       YmlLine("", "tool_calls", "") >>

\* YmlEntry as if lines 38-42 rendered output and success too
YmlEntryWithOutput(call) ==
    << YmlLine("  - ", "tool_name",
               " " \o Format(Get(call, "tool_name", PyStr("Unknown")))),
       YmlLine("    ", "start_time",
               " \"" \o Format(Get(call, "start_time", PyStr(""))) \o "\""),
       YmlLine("    ", "input",
               " " \o Format(Get(call, "input", EmptyDict))),
       YmlLine("    ", "duration_ms",
               " " \o Format(Get(call, "duration_ms", PyInt(0)))) >>
    \o (IF HasKey(call, "output")
        THEN << YmlLine("    ", "output",
                        " " \o Format(Get(call, "output", PyStr("")))),
                YmlLine("    ", "success",
                        " " \o Format(Get(call, "success", PyBool(FALSE)))) >>
        ELSE << >>)

\* lines 38-42
YmlEntry(call) ==
    << YmlLine("  - ", "tool_name",
               " " \o Format(Get(call, "tool_name", PyStr("Unknown")))),
       YmlLine("    ", "start_time",
               " \"" \o Format(Get(call, "start_time", PyStr(""))) \o "\""),
       YmlLine("    ", "input",
               " " \o Format(Get(call, "input", EmptyDict))),
       YmlLine("    ", "duration_ms",
               " " \o Format(Get(call, "duration_ms", PyInt(0)))) >>

\* line 28
PrintFound ==
    /\ pc = "summary"
    /\ console' = Append(console,
                         "Found " \o ToString(Len(tool_calls)) \o " tool calls:")
    /\ pc' = "summary_loop"
    /\ UNCHANGED <<file_path, processed, tool_calls, yml_content, yml_path,
                   src_open, dest_open, dest_file, err>>

\* lines 29-30, for the calls from 0-based index i on
RECURSIVE ConsoleLines(_, _)
ConsoleLines(i, calls) ==
    IF i >= Len(calls) THEN << >>
    ELSE <<ConsoleLine(i, calls[i + 1])>> \o ConsoleLines(i + 1, calls)

\* lines 29-30: the loop
PrintCalls ==
    /\ pc = "summary_loop"
    /\ console' = console \o ConsoleLines(0, tool_calls)
    /\ pc' = "yml"
    /\ UNCHANGED <<file_path, processed, tool_calls, yml_content, yml_path,
                   src_open, dest_open, dest_file, err>>

\* lines 33-35
BeginYml ==
    /\ pc = "yml"
    /\ yml_content' = YmlHeader
    /\ pc' = "yml_loop"
    /\ UNCHANGED <<file_path, processed, tool_calls, console, yml_path,
                   src_open, dest_open, dest_file, err>>

\* lines 37-42, for the calls from 0-based index i on
RECURSIVE YmlEntries(_, _)
YmlEntries(i, calls) ==
    IF i >= Len(calls) THEN << >>
    ELSE YmlEntry(calls[i + 1]) \o YmlEntries(i + 1, calls)

\* lines 37-42: the loop
AppendEntries ==
    /\ pc = "yml_loop"
    /\ yml_content' = yml_content \o YmlEntries(0, tool_calls)
    /\ pc' = "path"
    /\ UNCHANGED <<file_path, processed, tool_calls, console, yml_path,
                   src_open, dest_open, dest_file, err>>

(***************************************************************************)
(* Lines 45-49: the destination.                                           *)
(***************************************************************************)
\* s.replace(old, new), old not empty: every occurrence, left to right
RECURSIVE Replace(_, _, _)
Replace(s, old, new) ==
    IF Len(s) < Len(old) THEN s
    ELSE IF SubSeq(s, 1, Len(old)) = old
    THEN new \o Replace(SubSeq(s, Len(old) + 1, Len(s)), old, new)
    ELSE <<Head(s)>> \o Replace(Tail(s), old, new)

\* line 45
YmlPath(path) == Replace(path, JsonlExt, YmlExt)

\* line 45
DerivePath ==
    /\ pc = "path"
    /\ yml_path' = YmlPath(file_path)
    /\ pc' = "open_dest"
    /\ UNCHANGED <<file_path, processed, tool_calls, console, yml_content,
                   src_open, dest_open, dest_file, err>>

\* OpenDest as if lines 45-47 came before the console summary
OpenDestBeforeSummary ==
    /\ pc = "summary"
    /\ dest_open' = TRUE
    /\ dest_file' = Truncated
    /\ pc' = "write"
    /\ UNCHANGED <<file_path, processed, tool_calls, console, yml_content,
                   yml_path, src_open, err>>

\* line 46: open(yml_path, 'w') creates or truncates the file
OpenDest ==
    /\ pc = "open_dest"
    /\ dest_open' = TRUE
    /\ dest_file' = Truncated
    /\ pc' = "write"
    /\ UNCHANGED <<file_path, processed, tool_calls, console, yml_content,
                   yml_path, src_open, err>>

\* line 46: the destination cannot be opened for writing
OpenDestFail ==
    /\ pc = "open_dest"
    /\ err' = "OSError"
    /\ pc' = "failed"
    /\ UNCHANGED <<file_path, processed, tool_calls, console, yml_content,
                   yml_path, src_open, dest_open, dest_file>>

\* line 47, and the with block closes the destination
WriteDest ==
    /\ pc = "write"
    /\ dest_file' = Written(yml_content)
    /\ dest_open' = FALSE
    /\ pc' = "converted"
    /\ UNCHANGED <<file_path, processed, tool_calls, console, yml_content,
                   yml_path, src_open, err>>

\* line 47: the write fails part way; the with block closes the destination
WriteFail ==
    /\ pc = "write"
    /\ dest_file' = Partial
    /\ dest_open' = FALSE
    /\ err' = "OSError"
    /\ pc' = "failed"
    /\ UNCHANGED <<file_path, processed, tool_calls, console, yml_content,
                   yml_path, src_open>>

\* line 49
PrintConverted ==
    /\ pc = "converted"
    /\ console' = Append(console, "\nConverted to: " \o Text(yml_path))
    /\ pc' = "done"
    /\ UNCHANGED <<file_path, processed, tool_calls, yml_content, yml_path,
                   src_open, dest_open, dest_file, err>>

Next ==
    \/ OpenSource
    \/ OpenSourceFail
    \/ \E line \in Lines : ExtractLine(line)
    \/ \E line \in Lines : ParseFail(line)
    \/ \E line \in Lines : AttributeFail(line)
    \/ EndOfFile
    \/ PrintFound
    \/ PrintCalls
    \/ BeginYml
    \/ AppendEntries
    \/ DerivePath
    \/ OpenDest
    \/ OpenDestFail
    \/ WriteDest
    \/ WriteFail
    \/ PrintConverted

Spec == Init /\ [][Next]_vars

\* the steps of a run over a source file without lines
NextEmpty ==
    \/ OpenSource
    \/ OpenSourceFail
    \/ EndOfFile
    \/ PrintFound
    \/ PrintCalls
    \/ BeginYml
    \/ AppendEntries
    \/ DerivePath
    \/ OpenDest
    \/ OpenDestFail
    \/ WriteDest
    \/ WriteFail
    \/ PrintConverted

\* the runs with one argument over a source file without lines
SpecPath == InitArg /\ [][NextEmpty]_vars

(***************************************************************************)
(* The event stream, read off the lines delivered so far.                  *)
(***************************************************************************)
Last(seq) == seq[Len(seq)]

Front(seq) == SubSeq(seq, 1, Len(seq) - 1)

\* the run ended inside the read loop, at the last line delivered
ReadFailed == err \in {"JSONDecodeError", "AttributeError"}

\* the run is in lines 7-26, or has just left them (the stream is exhausted or
\* the read loop raised)
Extracting == pc \in {"open", "read", "summary"} \/ ReadFailed

\* the lines whose processing is complete
Done == IF ReadFailed THEN Front(processed) ELSE processed

IsEvent(line) == Parses(line) /\ IsDict(Loads(line))

IsToolInput(line) ==
    IsEvent(line) /\ EventType(Loads(line)) = PyStr("ToolInput")

IsToolOutput(line) ==
    IsEvent(line) /\ EventType(Loads(line)) = PyStr("ToolOutput")

\* a ToolInput event that carries a non-empty tool_input mapping
IsCreating(line) ==
    /\ IsToolInput(line)
    /\ LET tool_input == Get(Loads(line), "tool_input", EmptyDict)
       IN  IsDict(tool_input) /\ tool_input.items # <<>>

\* the positions in seq of its record-creating events, in stream order
CreatingAt(seq) == {p \in 1..Len(seq) : IsCreating(seq[p])}

\* the positions in seq of its record-creating events, as a sequence
RECURSIVE CreatingPositions(_)
CreatingPositions(seq) ==
    IF seq = <<>> THEN << >>
    ELSE LET before == CreatingPositions(Front(seq))
         IN  IF IsCreating(Last(seq)) THEN Append(before, Len(seq)) ELSE before

\* the position in seq of the event that created record i
CreatorPos(seq, i) == CreatingPositions(seq)[i]

\* the number of entries yml_content holds
Rendered == (Len(yml_content) - Len(YmlHeader)) \div 4

\* the position in seq of its last ToolInput event, 0 if it has none
LastToolInputPos(seq) ==
    LET at == {p \in 1..Len(seq) : IsToolInput(seq[p])}
    IN  IF at = {} THEN 0 ELSE CHOOSE p \in at : \A q \in at : q <= p

\* the record has an output attached
Completed(call) == HasKey(call, "output")

\* the four fields of a record that line 16-21 sets
Creation(call) ==
    << Get(call, "tool_name", PyNone), Get(call, "start_time", PyNone),
       Get(call, "input", PyNone), Get(call, "duration_ms", PyNone) >>

(***************************************************************************)
(* C1.  A ToolOutput event that follows the ToolInput event that created   *)
(* record i, with no ToolInput event between them, leaves record i         *)
(* carrying the event's results as output and its success flag, and        *)
(* changes no record at an index smaller than i.                           *)
(***************************************************************************)
C1_OutputGoesToCurrentRecord ==
    [][\A i \in 1..Len(tool_calls) :
         ( /\ Len(processed') = Len(processed) + 1
           /\ err' = ""
           /\ IsToolOutput(Last(processed'))
           /\ Cardinality(CreatingAt(processed)) >= i
           /\ CreatorPos(processed, i) = LastToolInputPos(processed) )
         => LET tool_output ==
                    Get(Loads(Last(processed')), "tool_output", EmptyDict)
            IN  /\ Len(tool_calls') >= i
                /\ Get(tool_calls'[i], "output", PyNone)
                      = Get(tool_output, "results", PyStr(""))
                /\ Get(tool_calls'[i], "success", PyNone)
                      = Get(tool_output, "success", PyBool(FALSE))
                /\ \A j \in 1..(i - 1) : tool_calls'[j] = tool_calls[j]
      ]_vars

\* an output has just been attached to the second record and not to the first
C1_Witness ==
    /\ pc = "read"
    /\ Len(tool_calls) >= 2
    /\ IsToolOutput(Last(processed))
    /\ CreatorPos(processed, Len(tool_calls)) = LastToolInputPos(processed)
    /\ Completed(tool_calls[Len(tool_calls)])
    /\ ~Completed(tool_calls[1])

(***************************************************************************)
(* C2.  After every prefix of the stream, tool_calls holds as many records *)
(* as the prefix has ToolInput events with a non-empty tool_input mapping. *)
(***************************************************************************)
C2_OneRecordPerNonEmptyToolInput ==
    Extracting => Len(tool_calls) = Cardinality(CreatingAt(Done))

\* a prefix with a ToolOutput, a ToolInput without tool_input and two records
C2_Witness ==
    /\ pc = "summary"
    /\ Len(tool_calls) = 2
    /\ \E p \in 1..Len(Done) : IsToolOutput(Done[p])
    /\ \E p \in 1..Len(Done) : IsToolInput(Done[p]) /\ ~IsCreating(Done[p])

(***************************************************************************)
(* C3.  The k-th record is the one built from the k-th ToolInput event     *)
(* with a non-empty tool_input, in stream order.                           *)
(***************************************************************************)
C3_RecordsInStreamOrder ==
    Extracting
    => LET created == SelectSeq(Done, IsCreating)
       IN  /\ Len(tool_calls) = Len(created)
           /\ \A k \in 1..Len(tool_calls) :
                 LET data == Loads(created[k])
                 IN  Creation(tool_calls[k])
                       = Creation(NewCall(data, Get(data, "tool_input", EmptyDict)))

\* two records built from different events, the first one completed since
C3_Witness ==
    /\ pc = "summary"
    /\ Len(tool_calls) >= 2
    /\ Creation(tool_calls[1]) # Creation(tool_calls[2])
    /\ Completed(tool_calls[1])

(***************************************************************************)
(* C4.  As claimed: once a record has an output and a success flag, no     *)
(* later ToolOutput event changes them.                                    *)
(***************************************************************************)
C4_CompletedNeverOverwritten ==
    [][\A i \in 1..Len(tool_calls) :
         Completed(tool_calls[i])
         => /\ Len(tool_calls') >= i
            /\ Get(tool_calls'[i], "output", PyNone)
                  = Get(tool_calls[i], "output", PyNone)
            /\ Get(tool_calls'[i], "success", PyNone)
                  = Get(tool_calls[i], "success", PyNone)
      ]_vars

(***************************************************************************)
(* C4, amended.  Once a record has an output and a success flag and a      *)
(* later record has been appended after it, no later ToolOutput event      *)
(* changes them; the last record's output and success are overwritten by   *)
(* every further ToolOutput event.                                         *)
(***************************************************************************)
C4_CompletedNotLastNeverOverwritten ==
    [][/\ \A i \in 1..(Len(tool_calls) - 1) :
            Completed(tool_calls[i])
            => /\ Len(tool_calls') >= i
               /\ Get(tool_calls'[i], "output", PyNone)
                     = Get(tool_calls[i], "output", PyNone)
               /\ Get(tool_calls'[i], "success", PyNone)
                     = Get(tool_calls[i], "success", PyNone)
       /\ ( /\ tool_calls # <<>>
            /\ Completed(Last(tool_calls))
            /\ Len(processed') = Len(processed) + 1
            /\ err' = ""
            /\ IsToolOutput(Last(processed')) )
          => LET tool_output ==
                     Get(Loads(Last(processed')), "tool_output", EmptyDict)
             IN  /\ Len(tool_calls') = Len(tool_calls)
                 /\ Get(Last(tool_calls'), "output", PyNone)
                       = Get(tool_output, "results", PyStr(""))
                 /\ Get(Last(tool_calls'), "success", PyNone)
                       = Get(tool_output, "success", PyBool(FALSE))
      ]_vars

\* a ToolOutput event has just been processed with a completed first record
\* that differs from it, and a later record that took the output
C4_Witness ==
    /\ pc = "read"
    /\ Len(tool_calls) >= 2
    /\ IsToolOutput(Last(processed))
    /\ Completed(tool_calls[1])
    /\ Completed(Last(tool_calls))
    /\ Get(tool_calls[1], "output", PyNone)
         # Get(Last(tool_calls), "output", PyNone)
    /\ \E p \in 1..(CreatorPos(processed, 2) - 1) : IsToolOutput(processed[p])

(***************************************************************************)
(* C5.  As claimed: at most one record is pending (has no output), and a   *)
(* pending record is the last one.                                         *)
(***************************************************************************)
C5_AtMostOnePendingAndLast ==
    Extracting
    => /\ Cardinality({i \in 1..Len(tool_calls) : ~Completed(tool_calls[i])}) <= 1
       /\ \A i \in 1..Len(tool_calls) :
             ~Completed(tool_calls[i]) => i = Len(tool_calls)

(***************************************************************************)
(* C5, amended.  A record is pending exactly when no ToolOutput event was  *)
(* processed after the ToolInput event that created it and before the next *)
(* record was created; so only the last record can still be completed,     *)
(* while any number of earlier records may be pending.                     *)
(***************************************************************************)
C5_PendingIffNoOutputWhileLast ==
    Extracting
    => LET at == CreatingPositions(Done)
           \* the positions after record i was created and before the next was
           span(i) ==
               (at[i] + 1)..(IF i < Len(at) THEN at[i + 1] - 1 ELSE Len(Done))
       IN  /\ Len(tool_calls) = Len(at)
           /\ \A i \in 1..Len(tool_calls) :
                 ~Completed(tool_calls[i])
                 <=> \A p \in span(i) : ~IsToolOutput(Done[p])

\* two pending records, and a third one that is completed
C5_Witness ==
    /\ pc = "read"
    /\ Len(tool_calls) = 3
    /\ ~Completed(tool_calls[1])
    /\ ~Completed(tool_calls[2])
    /\ Completed(tool_calls[3])

(***************************************************************************)
(* C6.  A line that fails to parse ends the run at that line: no later     *)
(* line is processed, nothing is printed, the destination is neither       *)
(* opened nor written, and the records of the earlier lines go nowhere.    *)
(***************************************************************************)
C6_ParseFailureAbortsWithoutOutput ==
    (\E p \in 1..Len(processed) : ~Parses(processed[p]))
    => /\ ~Parses(Last(processed))
       /\ \A p \in 1..(Len(processed) - 1) : Parses(processed[p])
       /\ pc = "failed"
       /\ err = "JSONDecodeError"
       /\ console = <<>>
       /\ yml_content = <<>>
       /\ ~dest_open
       /\ dest_file = Untouched

\* the run failed at a line that does not parse, with two records extracted
C6_Witness ==
    /\ err = "JSONDecodeError"
    /\ pc = "failed"
    /\ Len(tool_calls) = 2

(***************************************************************************)
(* C7.  As claimed: a record created from a tool_input without tool_name   *)
(* is shown with the literal Unknown, on its console line and in the       *)
(* tool_name field of its entry of the document.                           *)
(***************************************************************************)
C7_MissingNameShownAsUnknown ==
    \A k \in 1..Len(tool_calls) :
        LET data == Loads(Done[CreatorPos(Done, k)])
            tool_input == Get(data, "tool_input", EmptyDict)
        IN  ~HasKey(tool_input, "tool_name")
            => /\ Len(console) > k
                  => console[k + 1]
                       = "  " \o ToString(k) \o ". Unknown - "
                              \o Format(Get(tool_input, "tool_args", EmptyDict))
               /\ Rendered >= k
                  => yml_content[Len(YmlHeader) + 4 * (k - 1) + 1]
                       = YmlLine("  - ", "tool_name", " Unknown")

\* line 45 has run
PathDerived ==
    \/ pc \in {"open_dest", "write", "converted", "done"}
    \/ pc = "failed" /\ err = "OSError"

EndsWith(s, suffix) ==
    /\ Len(s) >= Len(suffix)
    /\ SubSeq(s, Len(s) - Len(suffix) + 1, Len(s)) = suffix

(***************************************************************************)
(* C8.  As claimed: the destination path of a source path that ends in     *)
(* .jsonl is the source path with that final suffix replaced by .yml and   *)
(* every character before it unchanged.                                    *)
(***************************************************************************)
C8_OnlyTrailingSuffixReplaced ==
    (PathDerived /\ EndsWith(file_path, JsonlExt))
    => yml_path = SubSeq(file_path, 1, Len(file_path) - Len(JsonlExt)) \o YmlExt

(***************************************************************************)
(* C9.  After a successful run the document written to the destination     *)
(* has, after its two header lines, one entry per record in the records'   *)
(* order, each with the four fields tool_name, start_time, input and       *)
(* duration_ms in that order, and no output or success field anywhere.     *)
(***************************************************************************)
C9_DocumentHasFourFieldsPerRecord ==
    pc \in {"converted", "done"}
    => LET doc == dest_file.lines
       IN  /\ dest_file.state = "written"
           /\ Len(doc) = Len(YmlHeader) + 4 * Len(tool_calls)
           /\ <<doc[1].key, doc[2].key>> = <<"session_id", "tool_calls">>
           /\ \A k \in 1..Len(tool_calls) :
                 LET at == Len(YmlHeader) + 4 * (k - 1)
                 IN  /\ [n \in 1..4 |-> doc[at + n].lead \o doc[at + n].key]
                          = << "  - tool_name", "    start_time",
                               "    input", "    duration_ms" >>
                     /\ doc[at + 3].text
                          = " " \o Format(Get(tool_calls[k], "input", PyNone))
                     /\ doc[at + 4].text
                          = " " \o Format(Get(tool_calls[k], "duration_ms", PyNone))
           /\ \A n \in 1..Len(doc) : doc[n].key \notin {"output", "success"}

\* a successful run over two different records, one completed and one pending
C9_Witness ==
    /\ pc = "done"
    /\ Len(tool_calls) = 2
    /\ Get(tool_calls[1], "input", PyNone) # Get(tool_calls[2], "input", PyNone)
    /\ Completed(tool_calls[1])
    /\ ~Completed(tool_calls[2])

\* seq without its k-th element
RemoveAt(seq, k) == SubSeq(seq, 1, k - 1) \o SubSeq(seq, k + 1, Len(seq))

(***************************************************************************)
(* C10.  A ToolOutput event processed while tool_calls is empty raises no  *)
(* error and leaves tool_calls empty, and the extraction ends as it does   *)
(* for the stream without that event.                                      *)
(***************************************************************************)
C10_OutputBeforeAnyRecordIsNoOp ==
    Extracting
    => \A k \in 1..Len(processed) :
          ( /\ IsToolOutput(processed[k])
            /\ CreatingAt(SubSeq(processed, 1, k - 1)) = {} )
          => /\ ~(ReadFailed /\ k = Len(processed))
             /\ Len(processed) = k => tool_calls = <<>>
             /\ ExtractAll(RemoveAt(processed, k))
                  = [calls |-> tool_calls, err |-> err]

\* the stream began with a ToolOutput event, and a record was completed later
C10_Witness ==
    /\ pc = "summary"
    /\ processed # <<>>
    /\ IsToolOutput(processed[1])
    /\ tool_calls # <<>>
    /\ Completed(Last(tool_calls))

(***************************************************************************)
(* C11.  A record built from a ToolInput event has duration_ms 0 when the  *)
(* event has no timing mapping or the mapping has no step_timeuse_ms, and  *)
(* the empty mapping as input when tool_input has no tool_args; fields     *)
(* that are present are carried unchanged, and start_time is the event's   *)
(* timestamp.                                                              *)
(***************************************************************************)
C11_DefaultsOfNewRecord ==
    Extracting
    => LET created == SelectSeq(Done, IsCreating)
       IN  \A k \in 1..Len(created) :
              LET data == Loads(created[k])
                  tool_input == Get(data, "tool_input", PyNone)
                  call == tool_calls[k]
              IN  /\ Len(tool_calls) >= k
                  /\ Get(call, "duration_ms", PyNone)
                       = IF HasKey(data, "timing")
                            /\ HasKey(Get(data, "timing", PyNone), "step_timeuse_ms")
                         THEN Get(Get(data, "timing", PyNone),
                                  "step_timeuse_ms", PyNone)
                         ELSE PyInt(0)
                  /\ Get(call, "input", PyNone)
                       = IF HasKey(tool_input, "tool_args")
                         THEN Get(tool_input, "tool_args", PyNone)
                         ELSE EmptyDict
                  /\ HasKey(data, "timestamp")
                     => Get(call, "start_time", PyNone)
                          = Get(data, "timestamp", PyNone)
                  /\ HasKey(tool_input, "tool_name")
                     => Get(call, "tool_name", PyNone)
                          = Get(tool_input, "tool_name", PyNone)

\* records built from an event without timing, from one whose timing has no
\* step_timeuse_ms and no tool_args, and from one that has them all
C11_Witness ==
    /\ pc = "summary"
    /\ LET created == SelectSeq(Done, IsCreating)
       IN  /\ Len(tool_calls) = 3
           /\ \E k \in 1..3 : ~HasKey(Loads(created[k]), "timing")
           /\ \E k \in 1..3 :
                 /\ HasKey(Loads(created[k]), "timing")
                 /\ ~HasKey(Get(Loads(created[k]), "timing", PyNone),
                            "step_timeuse_ms")
                 /\ ~HasKey(Get(Loads(created[k]), "tool_input", PyNone),
                            "tool_args")
           /\ \E k \in 1..3 :
                 Get(tool_calls[k], "duration_ms", PyNone) = PyInt(120)

(***************************************************************************)
(* C12.  The run goes open source, read every line, print the summary,     *)
(* write the destination, print the destination path: nothing is printed   *)
(* while the source is being read, the destination is opened only with the *)
(* whole summary printed, and a failure to open or write the destination   *)
(* leaves the summary on the console without the final line.               *)
(***************************************************************************)
C12_StrictOrderOfSteps ==
    /\ console # <<>> => ~src_open /\ pc \notin {"open", "read"} /\ ~ReadFailed
    /\ (dest_open \/ dest_file # Untouched \/ err = "OSError")
       => /\ Len(console) >= 1 + Len(tool_calls)
          /\ console[1] = "Found " \o ToString(Len(tool_calls)) \o " tool calls:"
    /\ (dest_open \/ err = "OSError") => Len(console) = 1 + Len(tool_calls)
    /\ Len(console) > 1 + Len(tool_calls)
       => /\ pc = "done"
          /\ dest_file = Written(yml_content)
          /\ ~dest_open
          /\ Last(console) = "\nConverted to: " \o Text(yml_path)

\* the write failed with a summary of two records on the console
C12_Witness ==
    /\ pc = "failed"
    /\ dest_file = Partial
    /\ Len(tool_calls) = 2
    /\ Len(console) = 3

(***************************************************************************)
(* C13.  When the run has ended, successfully or with any failure, neither *)
(* the source nor the destination is open; and the two are never open at   *)
(* the same time.                                                          *)
(***************************************************************************)
C13_FilesClosedAtExit ==
    /\ pc \in {"done", "failed"} => ~src_open /\ ~dest_open
    /\ ~(src_open /\ dest_open)
    /\ src_open <=> pc = "read"
    /\ dest_open <=> pc = "write"

\* the read loop raised with the source open and a record extracted
C13_Witness ==
    /\ pc = "failed"
    /\ err = "AttributeError"
    /\ tool_calls # <<>>

\* the stream of three events: search with everything, an output, fetch with
\* empty tool_args and no timing
Scenario ==
    << JsonLine(PyDict(<< <<"event_type", PyStr("ToolInput")>>,
                          <<"timestamp", PyStr("t1")>>,
                          <<"tool_input",
                            PyDict(<< <<"tool_name", PyStr("search")>>,
                                      <<"tool_args", ArgsCats>> >>)>>,
                          <<"timing",
                            PyDict(<< <<"step_timeuse_ms", PyInt(120)>> >>)>> >>)),
       JsonLine(PyDict(<< <<"event_type", PyStr("ToolOutput")>>,
                          <<"tool_output",
                            PyDict(<< <<"results", PyStr("3 hits")>>,
                                      <<"success", PyBool(TRUE)>> >>)>> >>)),
       JsonLine(PyDict(<< <<"event_type", PyStr("ToolInput")>>,
                          <<"timestamp", PyStr("t2")>>,
                          <<"tool_input",
                            PyDict(<< <<"tool_name", PyStr("fetch")>>,
                                      <<"tool_args", EmptyDict>> >>)>> >>)) >>

\* the fields of a record, as a function from key to value
Fields(call) ==
    [key \in {call.items[i][1] : i \in 1..Len(call.items)}
        |-> Get(call, key, PyNone)]

(***************************************************************************)
(* C15.  Over the stream ToolInput(search, t1, {q: cats}, 120),            *)
(* ToolOutput('3 hits', true), ToolInput(fetch, t2, {}, no timing) the     *)
(* extraction ends with exactly two records: search, t1, {q: cats}, 120,   *)
(* '3 hits', true; and fetch, t2, {}, 0 without output or success; and the *)
(* first console line is 'Found 2 tool calls:'.                            *)
(***************************************************************************)
C15_ThreeEventScenario ==
    (processed = Scenario /\ pc \notin {"open", "read"})
    => /\ err \in {"", "OSError"}
       /\ Len(tool_calls) = 2
       /\ Fields(tool_calls[1])
            = [tool_name |-> PyStr("search"), start_time |-> PyStr("t1"),
               input |-> ArgsCats, duration_ms |-> PyInt(120),
               output |-> PyStr("3 hits"), success |-> PyBool(TRUE)]
       /\ Fields(tool_calls[2])
            = [tool_name |-> PyStr("fetch"), start_time |-> PyStr("t2"),
               input |-> EmptyDict, duration_ms |-> PyInt(0)]
       /\ console # <<>> => console[1] = "Found 2 tool calls:"
       /\ pc \notin {"summary", "summary_loop"} => Len(console) >= 3

\* the run over the three events has ended with its three summary lines and
\* the final line
C15_Witness ==
    /\ processed = Scenario
    /\ pc = "done"
    /\ Len(console) = 4

(***************************************************************************)
(* C16.  As claimed: whatever source path is given on the command line,    *)
(* the destination path differs from it, so the file opened for writing is *)
(* never the source file.                                                  *)
(***************************************************************************)
C16_DestinationNeverTheSource ==
    (dest_open \/ dest_file # Untouched) => yml_path # file_path

(***************************************************************************)
(* C17.  A ToolOutput event processed while tool_calls is not empty keeps  *)
(* the length of tool_calls and every record but the last, keeps           *)
(* tool_name, start_time, input and duration_ms of the last record, and    *)
(* sets its output to tool_output.results ('' if absent) and its success   *)
(* to tool_output.success (false if absent), adding no other field.        *)
(***************************************************************************)
C17_OutputChangesOnlyLastRecord ==
    [][( /\ Len(processed') = Len(processed) + 1
         /\ IsToolOutput(Last(processed'))
         /\ IsDict(Get(Loads(Last(processed')), "tool_output", EmptyDict))
         /\ tool_calls # <<>> )
       => LET tool_output ==
                  Get(Loads(Last(processed')), "tool_output", EmptyDict)
              n == Len(tool_calls)
          IN  /\ err' = ""
              /\ Len(tool_calls') = n
              /\ \A j \in 1..(n - 1) : tool_calls'[j] = tool_calls[j]
              /\ Fields(tool_calls'[n])
                   = [key \in DOMAIN Fields(tool_calls[n])
                               \cup {"output", "success"} |->
                        IF key = "output"
                        THEN IF HasKey(tool_output, "results")
                             THEN Get(tool_output, "results", PyNone)
                             ELSE PyStr("")
                        ELSE IF key = "success"
                        THEN IF HasKey(tool_output, "success")
                             THEN Get(tool_output, "success", PyNone)
                             ELSE PyBool(FALSE)
                        ELSE Fields(tool_calls[n])[key]]
      ]_vars

\* a ToolOutput event without tool_output has just given the second of two
\* records the defaults, after the first had got '3 hits'
C17_Witness ==
    /\ pc = "read"
    /\ Len(tool_calls) = 2
    /\ IsToolOutput(Last(processed))
    /\ ~HasKey(Loads(Last(processed)), "tool_output")
    /\ Get(tool_calls[1], "output", PyNone) = PyStr("3 hits")
    /\ Get(tool_calls[2], "output", PyNone) = PyStr("")
    /\ Get(tool_calls[2], "success", PyNone) = PyBool(FALSE)

\* an event the loop skips: its event_type is neither ToolInput nor
\* ToolOutput or is absent, or it is a ToolInput event whose tool_input is
\* absent or the empty mapping
Skipped(line) ==
    /\ IsEvent(line)
    /\ \/ ~HasKey(Loads(line), "event_type")
       \/ /\ HasKey(Loads(line), "event_type")
          /\ Get(Loads(line), "event_type", PyNone)
               \notin {PyStr("ToolInput"), PyStr("ToolOutput")}
       \/ /\ IsToolInput(line)
          /\ \/ ~HasKey(Loads(line), "tool_input")
             \/ Get(Loads(line), "tool_input", PyNone) = EmptyDict

(***************************************************************************)
(* C18.  An event whose event_type is neither ToolInput nor ToolOutput or  *)
(* is absent, and a ToolInput event whose tool_input is absent or empty,   *)
(* leaves tool_calls unchanged and raises nothing; and a ToolOutput event  *)
(* that comes right after such a ToolInput event is attached to the record *)
(* that the last record-creating event before it created.                  *)
(***************************************************************************)
C18_SkippedEventsChangeNothing ==
    [][/\ ( /\ Len(processed') = Len(processed) + 1
            /\ Skipped(Last(processed')) )
          => /\ err' = ""
             /\ pc' = "read"
             /\ tool_calls' = tool_calls
       /\ ( /\ Len(processed') = Len(processed) + 1
            /\ IsToolOutput(Last(processed'))
            /\ IsDict(Get(Loads(Last(processed')), "tool_output", EmptyDict))
            /\ processed # <<>>
            /\ IsToolInput(Last(processed))
            /\ Skipped(Last(processed))
            /\ CreatingAt(processed) # {} )
          => LET tool_output ==
                     Get(Loads(Last(processed')), "tool_output", EmptyDict)
                 created == SelectSeq(processed, IsCreating)
                 n == Len(created)
             IN  /\ err' = ""
                 /\ Len(tool_calls') = n
                 /\ Get(tool_calls'[n], "start_time", PyNone)
                      = Get(Loads(created[n]), "timestamp", PyNone)
                 /\ Creation(tool_calls'[n]) = Creation(tool_calls[n])
                 /\ Get(tool_calls'[n], "output", PyNone)
                      = Get(tool_output, "results", PyStr(""))
                 /\ Get(tool_calls'[n], "success", PyNone)
                      = Get(tool_output, "success", PyBool(FALSE))
      ]_vars

\* an event of another type, then a record, then a ToolInput event without
\* a usable tool_input, then the output that went to that record
C18_Witness ==
    /\ pc = "read"
    /\ Len(processed) = 4
    /\ Skipped(processed[1]) /\ ~IsToolInput(processed[1])
    /\ IsCreating(processed[2])
    /\ Skipped(processed[3]) /\ IsToolInput(processed[3])
    /\ IsToolOutput(processed[4])
    /\ Len(tool_calls) = 1
    /\ Get(tool_calls[1], "output", PyNone) = PyStr("3 hits")

\* the text after the last "/" of a path
RECURSIVE FileName(_)
FileName(path) ==
    IF path = <<>> THEN << >>
    ELSE IF Last(path) = "/" THEN << >>
    ELSE Append(FileName(Front(path)), Last(path))

EnhancedOtel ==
    <<"e", "n", "h", "a", "n", "c", "e", "d", "_", "o", "t", "e", "l", "_">>

\* the session identifier in the name of a source file: the file name
\* without its .jsonl suffix and without a leading enhanced_otel_
SessionOf(path) ==
    LET name == FileName(path)
        stem == IF EndsWith(name, JsonlExt)
                THEN SubSeq(name, 1, Len(name) - Len(JsonlExt))
                ELSE name
    IN  IF Len(stem) >= Len(EnhancedOtel)
           /\ SubSeq(stem, 1, Len(EnhancedOtel)) = EnhancedOtel
        THEN SubSeq(stem, Len(EnhancedOtel) + 1, Len(stem))
        ELSE stem

(***************************************************************************)
(* C19.  As claimed: the session_id line at the top of the document names  *)
(* the session of the source file given on the command line, the one in    *)
(* its file name.                                                          *)
(***************************************************************************)
C19_SessionIdOfTheSourceFile ==
    (yml_content # <<>> /\ SessionOf(file_path) # <<>>)
    => /\ yml_content[1].key = "session_id"
       /\ yml_content[1].text = " " \o Text(SessionOf(file_path))

(***************************************************************************)
(* C20.  During extraction every record has output and success both or has *)
(* neither, and a record that has them has them after every later step.    *)
(***************************************************************************)
C20_OutputAndSuccessTogether ==
    [][/\ \A i \in 1..Len(tool_calls') :
            HasKey(tool_calls'[i], "output") <=> HasKey(tool_calls'[i], "success")
       /\ \A i \in 1..Len(tool_calls) :
            HasKey(tool_calls[i], "output")
            => /\ Len(tool_calls') >= i
               /\ HasKey(tool_calls'[i], "output")
               /\ HasKey(tool_calls'[i], "success")
      ]_vars

\* a record with output and success and a later one with neither, after a
\* further event
C20_Witness ==
    /\ pc = "read"
    /\ Len(processed) = 4
    /\ Len(tool_calls) = 2
    /\ HasKey(tool_calls[1], "output") /\ HasKey(tool_calls[1], "success")
    /\ ~HasKey(tool_calls[2], "output") /\ ~HasKey(tool_calls[2], "success")
====
